---- MODULE Spec2Model ----
(***************************************************************************)
(* Persistence layer of nedb-indexeddb (src/src/persistence.js).           *)
(*                                                                         *)
(* The durable side is one IndexedDB database holding one object store     *)
(* keyed by _id.  The engine is the environment: it answers open requests   *)
(* in the order they were made, answers every cursor step, put and delete  *)
(* with success or error, and completes a transaction once it has no       *)
(* request left.  A failed request sends its error event to the request's  *)
(* handler and then to trx.onerror, and the transaction aborts: every      *)
(* request still pending fails the same way, the writes are rolled back    *)
(* and the abort event, for which the source sets no handler, ends it.     *)
(* Every action below is one event, with the handlers of the source it     *)
(* runs, run to their end.                                                 *)
(***************************************************************************)
EXTENDS Integers, Sequences, FiniteSets, TLC

\* ------------------------------------------------------------- bounds
MaxKey == 2
MaxDelta == 2
MaxRuns == 2
MaxVersion == 3

\* ------------------------------------------------------------- values
Procs == {1, 2}
Keys == 1..MaxKey
Vals == {"x", "y"}
Absent == "absent"
NoKey == 0

PlainDoc(k, v) ==
  [id |-> k, val |-> v, deleted |-> FALSE, indexCreated |-> FALSE, indexRemoved |-> FALSE]
Tombstone(k) ==
  [id |-> k, val |-> Absent, deleted |-> TRUE, indexCreated |-> FALSE, indexRemoved |-> FALSE]
IndexCreatedMarker ==
  [id |-> NoKey, val |-> Absent, deleted |-> FALSE, indexCreated |-> TRUE, indexRemoved |-> FALSE]
IndexRemovedMarker ==
  [id |-> NoKey, val |-> Absent, deleted |-> FALSE, indexCreated |-> FALSE, indexRemoved |-> TRUE]

PlainDocs == {PlainDoc(k, v) : k \in Keys, v \in Vals}
DeltaDocs == PlainDocs \cup {Tombstone(k) : k \in Keys}
               \cup {IndexCreatedMarker, IndexRemovedMarker}

SeqsUpTo(S, n) == UNION {[1..m -> S] : m \in 0..n}
Range(s) == {s[i] : i \in 1..Len(s)}
Ids(s) == {s[i].id : i \in 1..Len(s)}

\* getAllData() returns the documents of the _id index: one per identifier.
Snapshots == {s \in SeqsUpTo(PlainDocs, MaxKey) : Cardinality(Ids(s)) = Len(s)}
Deltas == SeqsUpTo(DeltaDocs, MaxDelta)

\* The in-memory collection before anything has read it: its content is
\* fixed by the first getAllData() or resetIndexes().
Unobserved == <<[id |-> NoKey, val |-> Absent, deleted |-> FALSE,
                 indexCreated |-> FALSE, indexRemoved |-> FALSE]>>

EmptyStore == [k \in Keys |-> Absent]
StoreKeys(st) == {k \in Keys : st[k] # Absent}
StoreRecords(st) == {PlainDoc(k, st[k]) : k \in StoreKeys(st)}

\* values handed to the caller's callback
Ok == [err |-> "none", key |-> NoKey]
OpenErr == [err |-> "open", key |-> NoKey]
TrxErr == [err |-> "transaction", key |-> NoKey]
PutErrAsSuccess(k) == Ok
PutErr(k) == [err |-> "put", key |-> k]

Op(name, k) == [op |-> name, key |-> k]
Answer(name, k, success) == [op |-> name, key |-> k, ok |-> success]

\* what a call remembers of the durable side: content and schema when it
\* started (content again when its transaction starts), and the schema an
\* upgrade of its open request replaced
NoBase == [store |-> EmptyStore, hasStore |-> FALSE,
           oldVersion |-> 0, oldHasStore |-> FALSE]

Operations == {"persistCachedDatabase", "persistNewState", "loadDatabase"}

NoRun == [ran |-> FALSE, clean |-> FALSE, objects |-> <<>>, keys |-> {}]

VARIABLES
  inMemoryOnly,  \* this.inMemoryOnly
  dbVersion,     \* version of the database, 0 when it does not exist yet
  hasStore,      \* db.objectStoreNames.contains(storeName)
  store,         \* the object store: key -> payload, or Absent
  data,          \* the in-memory collection (getAllData / resetIndexes)
  kind,          \* per call: which operation runs in the slot
  pc,            \* per call: the request the call waits on
  objects,       \* per call: `objects` (snapshot, delta, or loaded records)
  keysToDelete,  \* per call: `keysToDelete`
  idx,           \* per call: position of async.eachSeries
  cur,           \* per call: key the cursor stands on
  openVer,       \* per call: `version` argument of the pending open
  connVer,       \* per call: db.version of the handle
  openQueue,     \* calls with a pending open request, in request order
  trxQueue,      \* transactions in creation order; the head is running
  cbs,           \* per call: the values the caller's callback received
  oplog,         \* per call: the engine requests issued
  resets,        \* per call: the arguments of each resetIndexes call
  released,      \* per call: number of executor.processBuffer() calls
  thrown,        \* per call: an exception escaped a handler
  failed,        \* per call: the engine failed a request or the transaction
  answers,       \* per call: the put and delete requests the engine answered
  trxOrder,      \* the calls that opened a transaction, in creation order
  upg,           \* per call: version upgrades the call triggered
  base,          \* per call: store content and schema when the call started
  runs,          \* completed persistCachedDatabase runs
  last           \* summary of the previous persistCachedDatabase run

vars == <<inMemoryOnly, dbVersion, hasStore, store, data, kind, pc, objects,
          keysToDelete, idx, cur, openVer, connVer, trxQueue, cbs, oplog,
          resets, released, thrown, failed, answers, trxOrder, upg, base, runs,
          last, openQueue>>

schema == <<dbVersion, hasStore>>
locals == <<objects, keysToDelete, idx, cur, openVer, connVer>>
history == <<cbs, oplog, resets, released, thrown, failed, answers, upg, base>>

\* ------------------------------------------------------------- Init
Init ==
  /\ inMemoryOnly \in BOOLEAN
  /\ dbVersion \in 0..1
  /\ hasStore \in BOOLEAN
  /\ (dbVersion = 0) => ~hasStore
  /\ store \in [Keys -> Vals \cup {Absent}]
  /\ ~hasStore => store = EmptyStore
  /\ data = Unobserved
  /\ kind = [p \in Procs |-> "none"]
  /\ pc = [p \in Procs |-> "idle"]
  /\ objects = [p \in Procs |-> <<>>]
  /\ keysToDelete = [p \in Procs |-> <<>>]
  /\ idx = [p \in Procs |-> 0]
  /\ cur = [p \in Procs |-> NoKey]
  /\ openVer = [p \in Procs |-> 0]
  /\ connVer = [p \in Procs |-> 0]
  /\ openQueue = <<>>
  /\ trxQueue = <<>>
  /\ cbs = [p \in Procs |-> <<>>]
  /\ oplog = [p \in Procs |-> <<>>]
  /\ resets = [p \in Procs |-> <<>>]
  /\ released = [p \in Procs |-> 0]
  /\ thrown = [p \in Procs |-> FALSE]
  /\ failed = [p \in Procs |-> FALSE]
  /\ answers = [p \in Procs |-> <<>>]
  /\ trxOrder = <<>>
  /\ upg = [p \in Procs |-> 0]
  /\ base = [p \in Procs |-> NoBase]
  /\ runs = 0
  /\ last = NoRun


\* ------------------------------------------------------------- helpers
Cb(p, v) == cbs' = [cbs EXCEPT ![p] = Append(@, v)]

Issue(p, newpc, i, ktd, log) ==
  /\ pc' = [pc EXCEPT ![p] = newpc]
  /\ idx' = [idx EXCEPT ![p] = i]
  /\ keysToDelete' = [keysToDelete EXCEPT ![p] = ktd]
  /\ oplog' = [oplog EXCEPT ![p] = log]

\* db.transaction(storeName, "readonly") of openReadTransaction; every other
\* transaction is "readwrite"
ReadOnly(p) == kind[p] = "openReadTransaction"

\* the call has a transaction that has neither completed nor aborted
Live(p) == p \in Range(trxQueue)

\* the engine runs a transaction when every transaction created before it
\* has ended, or is read-only as it is itself
RunningIn(p, queue) ==
  /\ p \in Range(queue)
  /\ \A i \in 1..Len(queue) :
       (\E j \in (i + 1)..Len(queue) : queue[j] = p)
         => (ReadOnly(queue[i]) /\ ReadOnly(p))
Running(p) == RunningIn(p, trxQueue)

\* the engine answers a request with success only in a running transaction
\* that is not aborting
Active(p) == Running(p) /\ ~failed[p]
Dequeue(p) == SelectSeq(trxQueue, LAMBDA q : q # p)

\* the transaction of p ends and leaves the store as st; a transaction that
\* starts to run now sees that content
EndTrx(p, st) ==
  /\ trxQueue' = Dequeue(p)
  /\ store' = st
  /\ base' = [q \in Procs |->
               IF RunningIn(q, Dequeue(p)) /\ ~Running(q)
                 THEN [base[q] EXCEPT !.store = st] ELSE base[q]]

\* trx.onerror: callback("Error ...: " + trx.error); c: what the caller's
\* callback has received so far
OnTrxError(c) == Append(c, TrxErr)

\* Array.prototype.indexOf, 0-based, -1 when absent
IndexOf(s, x) ==
  IF \E i \in 1..Len(s) : s[i] = x
    THEN (CHOOSE i \in 1..Len(s) : s[i] = x /\ \A j \in 1..(i - 1) : s[j] # x) - 1
    ELSE -1

\* Array.prototype.splice(start, 1): a negative start counts from the end
Splice1(s, start) ==
  LET from == IF start < 0 THEN (IF Len(s) + start < 0 THEN 0 ELSE Len(s) + start)
                           ELSE (IF start > Len(s) THEN Len(s) ELSE start)
  IN [i \in 1..(IF from < Len(s) THEN Len(s) - 1 ELSE Len(s)) |->
        IF i <= from THEN s[i] ELSE s[i + 1]]

\* the cursor's next record: the smallest key above `after`, NoKey at the end
NextKey(after) ==
  IF \E k \in Keys : k > after /\ store[k] # Absent
    THEN CHOOSE k \in Keys : /\ k > after /\ store[k] # Absent
                             /\ \A j \in Keys : (j > after /\ store[j] # Absent) => k <= j
    ELSE NoKey

\* ------------------------------------------------------------- openDbEnsureStore
\* the version the engine opens: the requested one, else the current one
\* (1 for a database that does not exist yet)
OpenTarget(p) ==
  IF openVer[p] = 0 THEN (IF dbVersion = 0 THEN 1 ELSE dbVersion) ELSE openVer[p]

\* req.onupgradeneeded: create the store when it is missing
OnUpgradeNeededBroken(has) == has
OnUpgradeNeeded(has) == IF ~has THEN TRUE ELSE has

\* db.version + 1
NextVersion(v) == v + 1

\* the error the three operations hand on: `if (err) return callback(err)`
ConnErrorSwallowed(e) == Ok
ConnError(e) == e

BeginOpen(p, v) ==
  /\ pc' = [pc EXCEPT ![p] = "open"]
  /\ openVer' = [openVer EXCEPT ![p] = v]
  /\ oplog' = [oplog EXCEPT ![p] = Append(@, Op("open", NoKey))]
  /\ openQueue' = Append(SelectSeq(openQueue, LAMBDA q : q # p), p)

\* the open request of p is the one the engine answers next
Answered(p) == openQueue # <<>> /\ Head(openQueue) = p

\* req.onerror, through openWriteTransaction to the operation's callback;
\* when the open fails after req.onupgradeneeded has run, the engine undoes
\* the upgrade: the version and the store it made are gone
OpenError(p) ==
  /\ pc[p] \in {"open", "upgraded"}
  /\ Answered(p)
  /\ openQueue' = Tail(openQueue)
  /\ dbVersion' = IF pc[p] = "upgraded" THEN base[p].oldVersion ELSE dbVersion
  /\ hasStore' = IF pc[p] = "upgraded" THEN base[p].oldHasStore ELSE hasStore
  /\ pc' = [pc EXCEPT ![p] = "done"]
  /\ Cb(p, ConnError(OpenErr))
  /\ failed' = [failed EXCEPT ![p] = TRUE]
  /\ UNCHANGED <<inMemoryOnly, store, data, kind, locals, trxQueue, trxOrder, oplog,
                 resets, released, thrown, answers, upg, base, runs, last>>

UpgradeNeeded(p) ==
  /\ pc[p] = "open"
  /\ Answered(p)
  /\ trxQueue = <<>>
  /\ OpenTarget(p) > dbVersion
  /\ OpenTarget(p) <= MaxVersion
  /\ dbVersion' = OpenTarget(p)
  /\ hasStore' = OnUpgradeNeeded(hasStore)
  /\ pc' = [pc EXCEPT ![p] = "upgraded"]
  /\ upg' = [upg EXCEPT ![p] = @ + 1]
  /\ base' = [base EXCEPT ![p].oldVersion = dbVersion, ![p].oldHasStore = hasStore]
  /\ UNCHANGED <<inMemoryOnly, store, data, kind, locals, trxQueue, trxOrder, cbs, oplog,
                 resets, released, thrown, failed, answers, runs, last, openQueue>>

\* async.eachSeries(objects, ...) of persistNewState, at position i
PnsBranchPutSkipped(o) == IF o.deleted THEN "delete" ELSE "skip"
PnsBranchNoTombstone(o) ==
  IF ~o.indexCreated /\ ~o.indexRemoved THEN "put" ELSE "skip"
PnsBranch(o) ==
  IF o.deleted THEN "delete"
  ELSE IF ~o.indexCreated /\ ~o.indexRemoved THEN "put"
  ELSE "skip"

PnsIterate(p, i, log) ==
  IF i > Len(objects[p])
    THEN Issue(p, "wait", i, keysToDelete[p], log)
    ELSE LET o == objects[p][i] IN
      CASE PnsBranch(o) = "delete" ->
             Issue(p, "del", i, keysToDelete[p], Append(log, Op("delete", o.id)))
        [] PnsBranch(o) = "put" ->
             Issue(p, "put", i, keysToDelete[p], Append(log, Op("put", o.id)))
        [] OTHER -> Issue(p, "wait", i, keysToDelete[p], log)

\* async.eachSeries(keysToDelete, ...) of persistCachedDatabase, at position j
PcdDeleteIterate(p, j, ktd, log) ==
  IF j > Len(ktd)
    THEN Issue(p, "wait", j, ktd, log)
    ELSE Issue(p, "del", j, ktd, Append(log, Op("delete", ktd[j])))

\* async.eachSeries(objects, ...) of persistCachedDatabase, at position i
PcdPutIterate(p, i, ktd, log) ==
  IF i > Len(objects[p])
    THEN PcdDeleteIterate(p, 1, ktd, log)
    ELSE Issue(p, "put", i, ktd, Append(log, Op("put", objects[p][i].id)))

\* req.onsuccess: reopen one version up when the store is missing, else hand
\* the handle on: openIndexedDB hands it to its caller; openWriteTransaction
\* and openReadTransaction open a transaction and hand that on, to their
\* caller or to the operation, which issues its first request
OpenSuccess(p) ==
  /\ \/ pc[p] = "upgraded"
     \/ pc[p] = "open" /\ OpenTarget(p) = dbVersion
  /\ Answered(p)
  /\ connVer' = [connVer EXCEPT ![p] = dbVersion]
  /\ IF ~hasStore
       THEN /\ BeginOpen(p, NextVersion(dbVersion))
            /\ UNCHANGED <<trxQueue, trxOrder, objects, keysToDelete, idx, cur, base, cbs>>
       ELSE IF kind[p] = "openIndexedDB"
         THEN /\ openQueue' = Tail(openQueue)
              /\ pc' = [pc EXCEPT ![p] = "done"]
              /\ Cb(p, Ok)
              /\ UNCHANGED <<trxQueue, trxOrder, objects, keysToDelete, idx, cur, base,
                             openVer, oplog>>
         ELSE /\ openQueue' = Tail(openQueue)
              /\ trxQueue' = Append(trxQueue, p)
              /\ trxOrder' = Append(trxOrder, p)
              /\ base' = [base EXCEPT ![p].store = store]
              /\ UNCHANGED openVer
              /\ LET log == Append(oplog[p], Op("transaction", NoKey)) IN
                 CASE kind[p] = "persistNewState" ->
                        /\ PnsIterate(p, 1, log)
                        /\ UNCHANGED <<objects, cur, cbs>>
                   [] kind[p] = "persistCachedDatabase" ->
                        /\ Issue(p, "scan", 0, <<>>, Append(log, Op("openCursor", NoKey)))
                        /\ cur' = [cur EXCEPT ![p] = NoKey]
                        /\ UNCHANGED <<objects, cbs>>
                   [] kind[p] = "loadDatabase" ->
                        /\ Issue(p, "scan", 0, keysToDelete[p],
                                 Append(log, Op("openCursor", NoKey)))
                        /\ cur' = [cur EXCEPT ![p] = NoKey]
                        /\ objects' = [objects EXCEPT ![p] = <<>>]
                        /\ UNCHANGED cbs
                   [] OTHER ->
                        /\ Issue(p, "wait", idx[p], keysToDelete[p], log)
                        /\ Cb(p, Ok)
                        /\ UNCHANGED <<objects, cur>>
  /\ UNCHANGED <<inMemoryOnly, schema, store, data, kind, resets, released,
                 thrown, failed, answers, upg, runs, last>>

\* ------------------------------------------------------------- calls
\* `if (this.inMemoryOnly) { return callback(null); }`
PcdShortCircuitNever == FALSE
PcdShortCircuit == inMemoryOnly

\* what getAllData() can return
GetAllData == IF data = Unobserved THEN Snapshots ELSE {data}

CallPersistCachedDatabase(p) ==
  /\ pc[p] = "idle"
  /\ kind' = [kind EXCEPT ![p] = "persistCachedDatabase"]
  /\ base' = [base EXCEPT ![p].store = store, ![p].hasStore = hasStore]
  /\ IF PcdShortCircuit
       THEN /\ pc' = [pc EXCEPT ![p] = "done"]
            /\ Cb(p, Ok)
            /\ UNCHANGED <<data, objects, openVer, oplog, openQueue>>
       ELSE /\ \E snap \in GetAllData :
                 /\ data' = snap
                 /\ objects' = [objects EXCEPT ![p] = snap]
            /\ BeginOpen(p, 0)
            /\ UNCHANGED cbs
  /\ UNCHANGED <<inMemoryOnly, schema, store, keysToDelete, idx, cur, connVer,
                 trxQueue, trxOrder, resets, released, thrown, failed, answers, upg, runs, last>>

PersistNewState(p, delta) ==
  /\ kind' = [kind EXCEPT ![p] = "persistNewState"]
  /\ base' = [base EXCEPT ![p].store = store, ![p].hasStore = hasStore]
  /\ objects' = [objects EXCEPT ![p] = delta]
  /\ BeginOpen(p, 0)
  /\ UNCHANGED <<inMemoryOnly, schema, store, data, keysToDelete, idx, cur, connVer,
                 trxQueue, trxOrder, cbs, resets, released, thrown, failed, answers, upg, runs, last>>

CallPersistNewState(p) ==
  /\ pc[p] = "idle"
  /\ \E delta \in Deltas : PersistNewState(p, delta)

\* openIndexedDB, openWriteTransaction and openReadTransaction called on
\* their own: the open/upgrade loop and nothing before it
OpenOnly(p, name) ==
  /\ kind' = [kind EXCEPT ![p] = name]
  /\ base' = [base EXCEPT ![p].store = store, ![p].hasStore = hasStore]
  /\ BeginOpen(p, 0)
  /\ UNCHANGED <<inMemoryOnly, schema, store, data, objects, keysToDelete, idx, cur,
                 connVer, trxQueue, trxOrder, cbs, resets, released, thrown, failed,
                 answers, upg, runs, last>>

CallOpenIndexedDB(p) ==
  /\ pc[p] = "idle"
  /\ OpenOnly(p, "openIndexedDB")

CallOpenWriteTransaction(p) ==
  /\ pc[p] = "idle"
  /\ OpenOnly(p, "openWriteTransaction")

CallOpenReadTransaction(p) ==
  /\ pc[p] = "idle"
  /\ OpenOnly(p, "openReadTransaction")

\* `self.inMemoryOnly` in loadDatabase: no `self` is declared there, so the name
\* is the global one: the window, which carries no inMemoryOnly property
LoadShortCircuit == FALSE

\* loadDatabase; selfDefined: whether the host defines a global `self`
LoadDatabase(p, selfDefined) ==
  /\ kind' = [kind EXCEPT ![p] = "loadDatabase"]
  /\ base' = [base EXCEPT ![p].store = store, ![p].hasStore = hasStore]
  /\ data' = <<>>
  /\ resets' = [resets EXCEPT ![p] = Append(@, [withDocs |-> FALSE, docs |-> <<>>])]
  /\ IF ~selfDefined
       THEN /\ thrown' = [thrown EXCEPT ![p] = TRUE]
            /\ pc' = [pc EXCEPT ![p] = "done"]
            /\ UNCHANGED <<cbs, openVer, oplog, openQueue>>
       ELSE IF LoadShortCircuit
         THEN /\ pc' = [pc EXCEPT ![p] = "done"]
              /\ Cb(p, Ok)
              /\ UNCHANGED <<thrown, openVer, oplog, openQueue>>
         ELSE /\ BeginOpen(p, 0)
              /\ UNCHANGED <<thrown, cbs>>
  /\ UNCHANGED <<inMemoryOnly, schema, store, objects, keysToDelete, idx, cur,
                 connVer, trxQueue, trxOrder, released, failed, answers, upg, runs, last>>

CallLoadDatabase(p) ==
  /\ pc[p] = "idle"
  /\ \E selfDefined \in BOOLEAN : LoadDatabase(p, selfDefined)

\* ------------------------------------------------------------- persistCachedDatabase
\* curReq.onsuccess with a record: keysToDelete.push(cursor.value._id)
PcdCursorStep(p) ==
  /\ kind[p] = "persistCachedDatabase" /\ pc[p] = "scan" /\ Active(p)
  /\ NextKey(cur[p]) # NoKey
  /\ keysToDelete' = [keysToDelete EXCEPT ![p] = Append(@, NextKey(cur[p]))]
  /\ cur' = [cur EXCEPT ![p] = NextKey(cur[p])]
  /\ UNCHANGED <<inMemoryOnly, schema, store, data, kind, pc, objects, idx, openVer,
                 connVer, trxQueue, trxOrder, history, runs, last, openQueue>>

\* curReq.onsuccess without a record: start the upserts
PcdCursorEnd(p) ==
  /\ kind[p] = "persistCachedDatabase" /\ pc[p] = "scan" /\ Active(p)
  /\ NextKey(cur[p]) = NoKey
  /\ PcdPutIterate(p, 1, keysToDelete[p], oplog[p])
  /\ UNCHANGED <<inMemoryOnly, schema, store, data, kind, objects, cur, openVer,
                 connVer, trxQueue, trxOrder, cbs, resets, released, thrown, failed, answers, upg, base,
                 runs, last, openQueue>>

\* putReq.onsuccess:
\* `if (keysToDelete.indexOf(o._id) === -1) keysToDelete.splice(keysToDelete.indexOf(o._id), 1)`
PutBookkeeping(ktd, id) ==
  IF IndexOf(ktd, id) = -1 THEN Splice1(ktd, IndexOf(ktd, id)) ELSE ktd

PcdPutSuccess(p) ==
  /\ kind[p] = "persistCachedDatabase" /\ pc[p] = "put" /\ Active(p)
  /\ LET o == objects[p][idx[p]] IN
       /\ store' = [store EXCEPT ![o.id] = o.val]
       /\ PcdPutIterate(p, idx[p] + 1, PutBookkeeping(keysToDelete[p], o.id), oplog[p])
  /\ answers' = [answers EXCEPT ![p] = Append(@, Answer("put", objects[p][idx[p]].id, TRUE))]
  /\ UNCHANGED <<inMemoryOnly, schema, data, kind, objects, cur, openVer, connVer,
                 trxQueue, trxOrder, cbs, resets, released, thrown, failed, upg, base, runs, last, openQueue>>

\* putReq.onerror: the series ends with the error, the caller's callback gets
\* it, and the deletes start all the same (no return after `callback (err)`);
\* the error event then reaches trx.onerror.  When the put itself fails the
\* transaction is still active and the first delete is issued; when the put
\* fails because the engine aborts the transaction, the transaction has
\* finished and store.delete(k) throws out of the handler.
PcdPutError(p) ==
  /\ kind[p] = "persistCachedDatabase" /\ pc[p] = "put" /\ Live(p)
  /\ failed' = [failed EXCEPT ![p] = TRUE]
  /\ cbs' = [cbs EXCEPT ![p] = OnTrxError(Append(@, PutErr(objects[p][idx[p]].id)))]
  /\ answers' = [answers EXCEPT ![p] = Append(@, Answer("put", objects[p][idx[p]].id, FALSE))]
  /\ \E aborted \in {b \in BOOLEAN : b \/ Active(p)} :
       IF aborted
         THEN /\ Issue(p, "wait", 1, keysToDelete[p], oplog[p])
              /\ thrown' = [thrown EXCEPT ![p] = @ \/ keysToDelete[p] # <<>>]
         ELSE /\ PcdDeleteIterate(p, 1, keysToDelete[p], oplog[p])
              /\ UNCHANGED thrown
  /\ UNCHANGED <<inMemoryOnly, schema, store, data, kind, objects, cur, openVer,
                 connVer, trxQueue, trxOrder, resets, released, upg, base, runs, last, openQueue>>

PcdDeleteSuccess(p) ==
  /\ kind[p] = "persistCachedDatabase" /\ pc[p] = "del" /\ Active(p)
  /\ store' = [store EXCEPT ![keysToDelete[p][idx[p]]] = Absent]
  /\ PcdDeleteIterate(p, idx[p] + 1, keysToDelete[p], oplog[p])
  /\ answers' = [answers EXCEPT ![p] = Append(@, Answer("delete", keysToDelete[p][idx[p]], TRUE))]
  /\ UNCHANGED <<inMemoryOnly, schema, data, kind, objects, cur, openVer, connVer,
                 trxQueue, trxOrder, cbs, resets, released, thrown, failed, upg, base, runs, last, openQueue>>

\* delReq.onerror: the series ends, the error goes to console.error; the
\* error event then reaches trx.onerror
PcdDeleteError(p) ==
  /\ kind[p] = "persistCachedDatabase" /\ pc[p] = "del" /\ Live(p)
  /\ failed' = [failed EXCEPT ![p] = TRUE]
  /\ pc' = [pc EXCEPT ![p] = "wait"]
  /\ answers' = [answers EXCEPT ![p] = Append(@, Answer("delete", keysToDelete[p][idx[p]], FALSE))]
  /\ cbs' = [cbs EXCEPT ![p] = OnTrxError(@)]
  /\ UNCHANGED <<inMemoryOnly, schema, store, data, kind, locals, trxQueue, trxOrder,
                 oplog, resets, released, thrown, upg, base, runs, last, openQueue>>

\* ------------------------------------------------------------- persistNewState
PnsPutSuccess(p) ==
  /\ kind[p] = "persistNewState" /\ pc[p] = "put" /\ Active(p)
  /\ LET o == objects[p][idx[p]] IN store' = [store EXCEPT ![o.id] = o.val]
  /\ PnsIterate(p, idx[p] + 1, oplog[p])
  /\ answers' = [answers EXCEPT ![p] = Append(@, Answer("put", objects[p][idx[p]].id, TRUE))]
  /\ UNCHANGED <<inMemoryOnly, schema, data, kind, objects, cur, openVer, connVer,
                 trxQueue, trxOrder, cbs, resets, released, thrown, failed, upg, base, runs, last, openQueue>>

\* putReq.onerror: callback("Error putting document ...") ends the series,
\* whose final callback does nothing; the error event then reaches trx.onerror
PnsPutError(p) ==
  /\ kind[p] = "persistNewState" /\ pc[p] = "put" /\ Live(p)
  /\ failed' = [failed EXCEPT ![p] = TRUE]
  /\ pc' = [pc EXCEPT ![p] = "wait"]
  /\ answers' = [answers EXCEPT ![p] = Append(@, Answer("put", objects[p][idx[p]].id, FALSE))]
  /\ cbs' = [cbs EXCEPT ![p] = OnTrxError(@)]
  /\ UNCHANGED <<inMemoryOnly, schema, store, data, kind, locals, trxQueue, trxOrder,
                 oplog, resets, released, thrown, upg, base, runs, last, openQueue>>

PnsDeleteSuccess(p) ==
  /\ kind[p] = "persistNewState" /\ pc[p] = "del" /\ Active(p)
  /\ store' = [store EXCEPT ![objects[p][idx[p]].id] = Absent]
  /\ PnsIterate(p, idx[p] + 1, oplog[p])
  /\ answers' = [answers EXCEPT ![p] = Append(@, Answer("delete", objects[p][idx[p]].id, TRUE))]
  /\ UNCHANGED <<inMemoryOnly, schema, data, kind, objects, cur, openVer, connVer,
                 trxQueue, trxOrder, cbs, resets, released, thrown, failed, upg, base, runs, last, openQueue>>

\* delReq.onerror: `"Error deleting document " + k` reads the undeclared k and
\* throws before the series is called back; the error event reaches
\* trx.onerror all the same
PnsDeleteError(p) ==
  /\ kind[p] = "persistNewState" /\ pc[p] = "del" /\ Live(p)
  /\ failed' = [failed EXCEPT ![p] = TRUE]
  /\ thrown' = [thrown EXCEPT ![p] = TRUE]
  /\ pc' = [pc EXCEPT ![p] = "wait"]
  /\ answers' = [answers EXCEPT ![p] = Append(@, Answer("delete", objects[p][idx[p]].id, FALSE))]
  /\ cbs' = [cbs EXCEPT ![p] = OnTrxError(@)]
  /\ UNCHANGED <<inMemoryOnly, schema, store, data, kind, locals, trxQueue, trxOrder,
                 oplog, resets, released, upg, base, runs, last, openQueue>>

\* ------------------------------------------------------------- loadDatabase
\* curReq.onsuccess with a record: objects.push(cursor.value)
LoadPushNothing(objs, rec) == objs
LoadPush(objs, rec) == Append(objs, rec)

\* the in-memory collection after a cursor event: db.resetIndexes(objects)
\* is called in the branch without a record only
LoadIndexedEveryStep(d, objs, atEnd) == objs
LoadIndexed(d, objs, atEnd) == IF atEnd THEN objs ELSE d

LoadCursorStep(p) ==
  /\ kind[p] = "loadDatabase" /\ pc[p] = "scan" /\ Active(p)
  /\ NextKey(cur[p]) # NoKey
  /\ LET k == NextKey(cur[p]) IN
       /\ objects' = [objects EXCEPT ![p] = LoadPush(@, PlainDoc(k, store[k]))]
       /\ data' = LoadIndexed(data, LoadPush(objects[p], PlainDoc(k, store[k])), FALSE)
       /\ cur' = [cur EXCEPT ![p] = k]
  /\ UNCHANGED <<inMemoryOnly, schema, store, kind, pc, keysToDelete, idx,
                 openVer, connVer, trxQueue, trxOrder, history, runs, last, openQueue>>

\* curReq.onsuccess without a record: db.resetIndexes(objects)
LoadCursorEnd(p) ==
  /\ kind[p] = "loadDatabase" /\ pc[p] = "scan" /\ Active(p)
  /\ NextKey(cur[p]) = NoKey
  /\ data' = LoadIndexed(data, objects[p], TRUE)
  /\ resets' = [resets EXCEPT ![p] = Append(@, [withDocs |-> TRUE, docs |-> objects[p]])]
  /\ pc' = [pc EXCEPT ![p] = "wait"]
  /\ UNCHANGED <<inMemoryOnly, schema, store, kind, locals, trxQueue, trxOrder, cbs, oplog,
                 released, thrown, failed, answers, upg, base, runs, last, openQueue>>

\* ------------------------------------------------------------- transaction events
\* trx.oncomplete: the transaction has no request left and none has failed;
\* openWriteTransaction and openReadTransaction set no handler
TrxComplete(p) ==
  /\ pc[p] = "wait" /\ Active(p)
  /\ EndTrx(p, store)
  /\ UNCHANGED trxOrder
  /\ pc' = [pc EXCEPT ![p] = "done"]
  /\ released' = [released EXCEPT ![p] = IF kind[p] = "loadDatabase" THEN @ + 1 ELSE @]
  /\ cbs' = [cbs EXCEPT ![p] = IF kind[p] \in Operations THEN Append(@, Ok) ELSE @]
  /\ UNCHANGED <<inMemoryOnly, schema, data, kind, locals, oplog, resets,
                 thrown, failed, answers, upg, runs, last, openQueue>>

\* the cursor request fails; curReq has no onerror, so the error event runs
\* trx.onerror only
TrxError(p) ==
  /\ kind[p] \in {"persistCachedDatabase", "loadDatabase"}
  /\ pc[p] = "scan" /\ Live(p)
  /\ pc' = [pc EXCEPT ![p] = "wait"]
  /\ failed' = [failed EXCEPT ![p] = TRUE]
  /\ cbs' = [cbs EXCEPT ![p] = OnTrxError(@)]
  /\ UNCHANGED <<inMemoryOnly, schema, store, data, kind, locals, trxQueue, trxOrder,
                 oplog, resets, released, thrown, answers, upg, base, runs, last,
                 openQueue>>

\* the abort event: the transaction ends with no request pending, after a
\* failed request or because the engine cannot commit it; its writes are
\* rolled back.  The source sets no trx.onabort: no handler runs.
TrxAbort(p) ==
  /\ pc[p] = "wait" /\ Live(p)
  /\ EndTrx(p, IF Running(p) THEN base[p].store ELSE store)
  /\ UNCHANGED trxOrder
  /\ pc' = [pc EXCEPT ![p] = "done"]
  /\ failed' = [failed EXCEPT ![p] = TRUE]
  /\ UNCHANGED <<inMemoryOnly, schema, data, kind, locals, oplog, resets, released,
                 thrown, cbs, answers, upg, runs, last, openQueue>>

\* ------------------------------------------------------------- the caller
\* the call has ended and the caller calls persistCachedDatabase again later
Return(p) ==
  /\ pc[p] = "done"
  /\ runs + 1 < MaxRuns
  /\ runs' = runs + 1
  /\ last' = IF kind[p] = "persistCachedDatabase"
               THEN [ran |-> TRUE,
                     clean |-> ~failed[p] /\ ~thrown[p] /\ cbs[p] = <<Ok>>,
                     objects |-> objects[p],
                     keys |-> StoreKeys(store)]
               ELSE NoRun
  /\ kind' = [kind EXCEPT ![p] = "none"]
  /\ pc' = [pc EXCEPT ![p] = "idle"]
  /\ objects' = [objects EXCEPT ![p] = <<>>]
  /\ keysToDelete' = [keysToDelete EXCEPT ![p] = <<>>]
  /\ idx' = [idx EXCEPT ![p] = 0]
  /\ cur' = [cur EXCEPT ![p] = NoKey]
  /\ openVer' = [openVer EXCEPT ![p] = 0]
  /\ connVer' = [connVer EXCEPT ![p] = 0]
  /\ cbs' = [cbs EXCEPT ![p] = <<>>]
  /\ oplog' = [oplog EXCEPT ![p] = <<>>]
  /\ resets' = [resets EXCEPT ![p] = <<>>]
  /\ released' = [released EXCEPT ![p] = 0]
  /\ thrown' = [thrown EXCEPT ![p] = FALSE]
  /\ failed' = [failed EXCEPT ![p] = FALSE]
  /\ answers' = [answers EXCEPT ![p] = <<>>]
  /\ trxOrder' = SelectSeq(trxOrder, LAMBDA q : q # p)
  /\ upg' = [upg EXCEPT ![p] = 0]
  /\ base' = [base EXCEPT ![p] = NoBase]
  /\ UNCHANGED <<inMemoryOnly, schema, store, data, trxQueue, openQueue>>

\* ------------------------------------------------------------- specifications
\* the slot of the one caller that runs its calls one after the other
Callers == {CHOOSE p \in Procs : \A q \in Procs : p <= q}

\* one call of any operation, from any durable content
Next ==
  \E p \in Callers :
    \/ CallPersistCachedDatabase(p)
    \/ CallPersistNewState(p)
    \/ CallLoadDatabase(p)
    \/ CallOpenIndexedDB(p)
    \/ CallOpenWriteTransaction(p)
    \/ CallOpenReadTransaction(p)
    \/ OpenError(p)
    \/ UpgradeNeeded(p)
    \/ OpenSuccess(p)
    \/ PcdCursorStep(p)
    \/ PcdCursorEnd(p)
    \/ PcdPutSuccess(p)
    \/ PcdPutError(p)
    \/ PcdDeleteSuccess(p)
    \/ PcdDeleteError(p)
    \/ PnsPutSuccess(p)
    \/ PnsPutError(p)
    \/ PnsDeleteSuccess(p)
    \/ PnsDeleteError(p)
    \/ LoadCursorStep(p)
    \/ LoadCursorEnd(p)
    \/ TrxComplete(p)
    \/ TrxError(p)
    \/ TrxAbort(p)

Spec == Init /\ [][Next]_vars

\* persistCachedDatabase called again and again, the collection left alone
NextCompact ==
  \E p \in Callers :
    \/ CallPersistCachedDatabase(p)
    \/ OpenError(p)
    \/ UpgradeNeeded(p)
    \/ OpenSuccess(p)
    \/ PcdCursorStep(p)
    \/ PcdCursorEnd(p)
    \/ PcdPutSuccess(p)
    \/ PcdPutError(p)
    \/ PcdDeleteSuccess(p)
    \/ PcdDeleteError(p)
    \/ TrxComplete(p)
    \/ TrxError(p)
    \/ TrxAbort(p)
    \/ Return(p)

SpecCompact == Init /\ [][NextCompact]_vars

\* a compaction and, once its snapshot is taken, the insertion of a document
\* the snapshot does not hold, handed to persistNewState by a second caller
Compactor == CHOOSE p \in Callers : TRUE
Writer == CHOOSE p \in Procs : p \notin Callers

CallInsertAfterSnapshot(p) ==
  /\ pc[p] = "idle"
  /\ kind[Compactor] = "persistCachedDatabase"
  /\ \E d \in PlainDocs :
       /\ d.id \notin Ids(objects[Compactor])
       /\ PersistNewState(p, <<d>>)

NextOverlap ==
  \/ CallPersistCachedDatabase(Compactor)
  \/ CallInsertAfterSnapshot(Writer)
  \/ \E p \in Procs :
       \/ OpenError(p)
       \/ UpgradeNeeded(p)
       \/ OpenSuccess(p)
       \/ PcdCursorStep(p)
       \/ PcdCursorEnd(p)
       \/ PcdPutSuccess(p)
       \/ PcdPutError(p)
       \/ PcdDeleteSuccess(p)
       \/ PcdDeleteError(p)
       \/ PnsPutSuccess(p)
       \/ PnsPutError(p)
       \/ TrxComplete(p)
       \/ TrxError(p)
       \/ TrxAbort(p)

SpecOverlap == Init /\ [][NextOverlap]_vars

\* ------------------------------------------------------------- properties
\* the put and delete requests a call has issued, in order
Writes(p) == SelectSeq(oplog[p], LAMBDA e : e.op \in {"put", "delete"})

\* the requests a delta asks for: one per tombstone or ordinary document
IsMarker(o) == o.indexCreated \/ o.indexRemoved
WriteOf(o) == Op(IF o.deleted THEN "delete" ELSE "put", o.id)
Wanted(delta) ==
  LET docs == SelectSeq(delta, LAMBDA o : ~IsMarker(o))
  IN [i \in 1..Len(docs) |-> WriteOf(docs[i])]

\* the last entry of a delta that names key k
LastFor(delta, k) ==
  delta[CHOOSE i \in 1..Len(delta) :
          /\ delta[i].id = k
          /\ \A j \in (i + 1)..Len(delta) : delta[j].id # k]

CleanSuccess(p) == pc[p] = "done" /\ ~failed[p] /\ ~thrown[p] /\ cbs[p] = <<Ok>>
OpenFailed(p) ==
  /\ pc[p] = "done" /\ failed[p]
  /\ \A i \in 1..Len(oplog[p]) : oplog[p][i].op # "transaction"
HasHandle(p) == \E i \in 1..Len(oplog[p]) : oplog[p][i].op = "transaction"

\* C1: when persistCachedDatabase ends with success and nothing failed, the
\* keys of the durable store are exactly the identifiers of the snapshot.
C1_Convergence ==
  \A p \in Procs :
    (kind[p] = "persistCachedDatabase" /\ ~inMemoryOnly /\ CleanSuccess(p))
      => StoreKeys(store) = Ids(objects[p])

\* C2: a second persistCachedDatabase run right after a first one, with the
\* same in-memory collection, leaves the durable key set as the first run
\* left it.
C2_Idempotence ==
  \A p \in Procs :
    (/\ kind[p] = "persistCachedDatabase" /\ ~inMemoryOnly /\ CleanSuccess(p)
     /\ last.ran /\ last.clean /\ last.objects = objects[p])
      => StoreKeys(store) = last.keys

\* C3: persistNewState on a delta of tombstones and ordinary documents, with
\* no failure: the requests are the delta's, in its order; a key the delta
\* names ends as its last entry says (absent for a tombstone, the document
\* otherwise); every other key keeps its record.
C3_DeltaCorrect ==
  \A p \in Procs :
    (/\ kind[p] = "persistNewState" /\ CleanSuccess(p)
     /\ \A i \in 1..Len(objects[p]) : ~IsMarker(objects[p][i]))
      => /\ Writes(p) = Wanted(objects[p])
         /\ \A k \in Keys :
              store[k] = IF k \in Ids(objects[p])
                           THEN (IF LastFor(objects[p], k).deleted
                                   THEN Absent ELSE LastFor(objects[p], k).val)
                           ELSE base[p].store[k]

C3_Witness ==
  \E p \in Procs :
    /\ kind[p] = "persistNewState" /\ CleanSuccess(p)
    /\ Len(objects[p]) = 2
    /\ objects[p][1].deleted /\ base[p].store[objects[p][1].id] # Absent
    /\ ~objects[p][2].deleted /\ ~IsMarker(objects[p][2])
    /\ objects[p][2].id # objects[p][1].id

\* C4: when persistNewState signals success, every tombstone and every
\* ordinary document of the delta has been issued to the store, those after
\* an index-created or index-removed marker too.
C4_MarkersSkipped ==
  \A p \in Procs :
    (kind[p] = "persistNewState" /\ CleanSuccess(p))
      => Writes(p) = Wanted(objects[p])

\* C5: when loadDatabase ends with success, resetIndexes has been called
\* exactly once with a record sequence, that sequence holds each record of
\* the store once, and it is the in-memory collection.
C5_LoadCorrect ==
  \A p \in Procs :
    (kind[p] = "loadDatabase" /\ pc[p] = "done" /\ cbs[p] = <<Ok>>)
      => LET full == SelectSeq(resets[p], LAMBDA r : r.withDocs) IN
           /\ Len(full) = 1
           /\ Range(full[1].docs) = StoreRecords(store)
           /\ Len(full[1].docs) = Cardinality(StoreRecords(store))
           /\ data = full[1].docs

C5_Witness ==
  \E p \in Procs :
    /\ kind[p] = "loadDatabase" /\ pc[p] = "done" /\ cbs[p] = <<Ok>>
    /\ Cardinality(StoreKeys(store)) = 2
    /\ Len(data) = 2

\* C6: in in-memory-only mode persistCachedDatabase calls back with success,
\* issues no request to the engine and leaves the store as it was.
C6_CompactInMemoryOnly ==
  \A p \in Procs :
    (kind[p] = "persistCachedDatabase" /\ inMemoryOnly)
      => /\ pc[p] = "done"
         /\ cbs[p] = <<Ok>>
         /\ oplog[p] = <<>>
         /\ store = base[p].store

C6_Witness ==
  \E p \in Procs :
    /\ kind[p] = "persistCachedDatabase" /\ inMemoryOnly /\ pc[p] = "done"
    /\ StoreKeys(store) # {}

\* C7: in in-memory-only mode loadDatabase resets the indexes to empty, calls
\* back with success and issues no request to the engine (stated for a host
\* that defines `self`, where the call does not throw).
C7_LoadInMemoryOnly ==
  \A p \in Procs :
    (kind[p] = "loadDatabase" /\ inMemoryOnly /\ ~thrown[p])
      => /\ pc[p] = "done"
         /\ cbs[p] = <<Ok>>
         /\ oplog[p] = <<>>
         /\ data = <<>>

\* C8: a call that got its handle finds the store in it, and has raised the
\* version once when the store was missing at its start and never when it was
\* there; no call raises the version more often than that.
C8_SchemaBootstrap ==
  \A p \in Procs :
    /\ HasHandle(p) => (hasStore /\ upg[p] = IF base[p].hasStore THEN 0 ELSE 1)
    /\ kind[p] # "none" => upg[p] <= (IF base[p].hasStore THEN 0 ELSE 1)

C8_Witness ==
  \E p \in Procs :
    /\ HasHandle(p) /\ ~base[p].hasStore /\ upg[p] = 1
    /\ dbVersion = 2 /\ pc[p] = "done"

\* C9: when the open fails, the operation hands the connection error to the
\* caller's callback, once, issues no cursor, put or delete, and leaves the
\* store as it was.
C9_OpenFailure ==
  \A p \in Procs :
    OpenFailed(p)
      => /\ cbs[p] = <<OpenErr>>
         /\ \A i \in 1..Len(oplog[p]) : oplog[p][i].op = "open"
         /\ store = base[p].store

C9_Witness ==
  \E p \in Procs :
    /\ OpenFailed(p) /\ kind[p] = "persistNewState"
    /\ objects[p] # <<>> /\ StoreKeys(store) # {}

\* C10: in persistNewState a failed put or delete does not end the batch:
\* the series comes to rest (no request in flight, none to follow) only when
\* every document of the delta has been issued to the store, in order.
C10_LogAndContinue ==
  \A p \in Procs :
    (/\ kind[p] = "persistNewState" /\ pc[p] = "wait"
     /\ \A i \in 1..Len(objects[p]) : ~IsMarker(objects[p][i]))
      => Writes(p) = Wanted(objects[p])

\* the requests of a call the engine failed
FailedAnswers(p) == SelectSeq(answers[p], LAMBDA a : ~a.ok)

\* C11: no event handler of loadDatabase, persistNewState or
\* persistCachedDatabase lets an exception escape: once a call has its
\* transaction, every failure reaches a callback as an error value.
C11_NoThrow ==
  \A p \in Procs : HasHandle(p) => ~thrown[p]

\* C12: whenever a put or a delete of persistCachedDatabase fails, the
\* caller's callback receives an error that carries the key of that record.
C12_ErrorCarriesKey ==
  \A p \in Procs :
    kind[p] = "persistCachedDatabase"
      => \A i \in 1..Len(FailedAnswers(p)) :
           \E j \in 1..Len(cbs[p]) :
             /\ cbs[p][j].err # "none"
             /\ cbs[p][j].key = FailedAnswers(p)[i].key

\* C13: after persistCachedDatabase has handed a per-record error to the
\* caller's callback, the callback is not invoked again.
C13_NoSignalAfterError ==
  \A p \in Procs :
    kind[p] = "persistCachedDatabase"
      => \A j \in 1..Len(cbs[p]) :
           cbs[p][j].err = "put" => j = Len(cbs[p])

IsPrefix(s, t) == Len(s) <= Len(t) /\ \A i \in 1..Len(s) : s[i] = t[i]
HasError(p) == \E j \in 1..Len(cbs[p]) : cbs[p][j].err # "none"
FullResets(p) == SelectSeq(resets[p], LAMBDA r : r.withDocs)

\* C14: whenever loadDatabase hands an error to its callback, the in-memory
\* collection is in the reset, empty state and processBuffer has not run.
C14_FailedLoadEmpty ==
  \A p \in Procs :
    (kind[p] = "loadDatabase" /\ HasError(p))
      => data = <<>> /\ released[p] = 0

C14_Witness ==
  \E p \in Procs :
    /\ kind[p] = "loadDatabase" /\ pc[p] = "done"
    /\ cbs[p] = <<TrxErr>>
    /\ objects[p] # <<>>

\* C15: persistCachedDatabase starts deleting only when the scan has ended and
\* every upsert of the snapshot has completed, and keysToDelete then holds
\* exactly the scanned keys that are no identifier of the snapshot.
C15_DeletePhase ==
  \A p \in Procs :
    (/\ kind[p] = "persistCachedDatabase" /\ ~failed[p]
     /\ \E i \in 1..Len(oplog[p]) : oplog[p][i].op = "delete")
      => /\ NextKey(cur[p]) = NoKey \/ pc[p] = "done"
         /\ Len(SelectSeq(answers[p], LAMBDA a : a.op = "put" /\ a.ok)) = Len(objects[p])
         /\ Range(keysToDelete[p]) = StoreKeys(base[p].store) \ Ids(objects[p])

\* C16: in one transaction of persistCachedDatabase or persistNewState at
\* most one put or delete is in flight, a request is issued only after the
\* one before it has succeeded, and the requests follow the input order.
C16_SequentialWrites ==
  \A p \in Procs :
    kind[p] \in {"persistCachedDatabase", "persistNewState"}
      => /\ Len(Writes(p)) - Len(answers[p]) \in {0, 1}
         /\ \A i \in 1..Len(answers[p]) : i < Len(Writes(p)) => answers[p][i].ok
         /\ kind[p] = "persistNewState" => IsPrefix(Writes(p), Wanted(objects[p]))
         /\ kind[p] = "persistCachedDatabase" =>
              /\ IsPrefix(SelectSeq(Writes(p), LAMBDA e : e.op = "put"),
                          [i \in 1..Len(objects[p]) |-> Op("put", objects[p][i].id)])
              /\ IsPrefix(SelectSeq(Writes(p), LAMBDA e : e.op = "delete"),
                          [i \in 1..Len(keysToDelete[p]) |->
                             Op("delete", keysToDelete[p][i])])

\* C17: loadDatabase resets the indexes to empty before any request;
\* resetIndexes(records) runs when the transaction has completed, not before;
\* processBuffer runs only after it, and the success callback only after
\* processBuffer.
C17_LoaderOrdering ==
  \A p \in Procs :
    kind[p] = "loadDatabase"
      => /\ Len(resets[p]) >= 1 /\ ~resets[p][1].withDocs
         /\ FullResets(p) # <<>> => (pc[p] = "done" /\ p \notin Range(trxQueue))
         /\ released[p] > 0 => FullResets(p) # <<>>
         /\ Ok \in Range(cbs[p]) => released[p] = 1

\* C18: persistCachedDatabase and persistNewState (not in-memory-only) hand
\* success to the caller only when the write transaction has completed: the
\* call then has its transaction behind it and no request of it is pending.
C18_SuccessOnCompletion ==
  \A p \in Procs :
    (/\ kind[p] \in {"persistCachedDatabase", "persistNewState"}
     /\ ~(kind[p] = "persistCachedDatabase" /\ inMemoryOnly)
     /\ Ok \in Range(cbs[p]))
      => /\ pc[p] = "done"
         /\ HasHandle(p)
         /\ p \notin Range(trxQueue)
         /\ Len(Writes(p)) = Len(answers[p])
         /\ cbs[p][Len(cbs[p])] = Ok

C18_Witness ==
  \E p \in Procs :
    /\ kind[p] = "persistCachedDatabase" /\ ~inMemoryOnly
    /\ cbs[p] = <<Ok>>
    /\ Len(Writes(p)) = 2

BothSucceeded ==
  /\ kind[Compactor] = "persistCachedDatabase" /\ CleanSuccess(Compactor)
  /\ kind[Writer] = "persistNewState" /\ CleanSuccess(Writer)

\* C19: a document inserted after the compaction took its snapshot and handed
\* to persistNewState is in the durable store once both calls have signalled
\* success, under every order of events the engine allows.
C19_NoLostInsert ==
  BothSucceeded => store[objects[Writer][1].id] = objects[Writer][1].val

C19_Witness ==
  /\ BothSucceeded
  /\ trxOrder = <<Compactor, Writer>>
  /\ StoreKeys(base[Compactor].store) # {}
  /\ base[Compactor].store[objects[Writer][1].id] # Absent
  /\ \E i \in 1..Len(oplog[Compactor]) :
       oplog[Compactor][i] = Op("delete", objects[Writer][1].id)

\* C20: every call of loadDatabase, persistNewState and persistCachedDatabase
\* invokes the caller's callback at least once: a call that has come to its end,
\* with no request or transaction of its own left to be answered, has handed
\* the caller a result.
C20_EndedCallsCalledBack ==
  \A p \in Procs : pc[p] = "done" => cbs[p] # <<>>

====
